---- MODULE Spec2Model ----
(***************************************************************************)
(* The chat server of src/README.md (lines 19-507): the Lobby goroutine,   *)
(* the acceptor (main), the two pumps and the relay goroutine of every     *)
(* client, and the deletion timers of the chat rooms.                      *)
(*                                                                         *)
(* All channels of the server are unbuffered: a send is a rendezvous with  *)
(* the goroutine that receives.  A goroutine is modelled by its position   *)
(* (the blocking operation it is at); the code between two blocking        *)
(* operations is one step.  A step that waits for nothing but a goroutine   *)
(* already waiting for it (the relay taking a Message from Client.Read, a  *)
(* range ending on a channel just closed) is taken with the step that      *)
(* enables it.                                                             *)
(*                                                                         *)
(* The clock counts units of 84 hours, so that ExpiryTime (7 days,         *)
(* README.md:66) is 2 units.                                               *)
(***************************************************************************)
EXTENDS Naturals, Sequences, FiniteSets

\* ---------------------------------------------------------------- bounds
\* Connections accepted during a run (each is one Client object).
NumClients == 4
\* Lines the clients send during a run, all clients together.
MaxLines == 1
\* Connections and lines of a run in which no connection ends.
RoomClients == 2
RoomLinesMax == 3
\* Lines of a run shorter than a clock unit in which no connection ends.
ChatLinesMax == 4
\* NewChatRoom calls during a run (each is one ChatRoom object).
MaxRooms == 2
\* The clock stops here.
MaxTime == 3
\* Connections the peers close or lose during a run.
MaxPeerCloses == 1
\* Lines read during a run in which a client renames itself.
NameLinesMax == 5
\* Connections and lines read during a run checked under fairness.
FailClients == 2
FailLinesMax == 2
\* Connections of a run checked under fairness in which rooms expire.
ExpireClients == 1

\* ------------------------------------------------------ program constants
\* README.md:35 (10 in the source, scaled down: NumClients is MaxClients + 1)
MaxClients == 3
\* README.md:66 (7 * 24 * time.Hour, in clock units of 84 hours)
ExpiryTime == 2
\* README.md:46
ClientName == "Anonymous"

Clients == 1..NumClients
RoomIds == 1..MaxRooms
RoomNames == {"r1", "r2"}
NewNames == {"Bob"}
\* nil: the Go nil pointer of a *ChatRoom / *Client
nil == 0

\* A line read from a socket, as its words.
Lines ==
    {<<"/create", n>> : n \in RoomNames} \cup {<<"/join", n>> : n \in RoomNames}
        \cup {<<"/name", n>> : n \in NewNames}
        \cup {<<"/leave">>, <<"/list">>, <<"/help">>, <<"/quit">>, <<"hi">>}

\* The lines that act on chat rooms.
RoomLines == Lines \ {<<"/list">>, <<"/help">>, <<"/quit">>}

\* -------------------------------------------------------------- strings
\* The server's strings (README.md:49-64), a format with its arguments.
ErrorSend == <<"ErrorSend">>
ErrorCreate == <<"ErrorCreate">>
ErrorJoin == <<"ErrorJoin">>
ErrorLeave == <<"ErrorLeave">>
MsgConnect == <<"MsgConnect">>
NoticeRoomDelete == <<"NoticeRoomDelete">>
NoticeRoomJoin(n) == <<"NoticeRoomJoin", n>>
NoticeRoomLeave(n) == <<"NoticeRoomLeave", n>>
NoticeRoomName(old, new) == <<"NoticeRoomName", old, new>>
NoticePersonalCreate(n) == <<"NoticePersonalCreate", n>>
\* The format has no verb: Sprintf appends the argument as %!(EXTRA string=n).
NoticePersonalName(n) == <<"NoticePersonalName", "", "EXTRA", n>>

\* time.Kitchen keeps the time of day only: 84-hour units alternate between
\* two times of day.
Kitchen(t) == t % 2

\* Message.String: "%s - %s: %s\n" of the time, the sender's name now, the text.
MessageString(t, senderName, text) == <<"chat", Kitchen(t), senderName, text>>

HelpLines ==
    << <<"\n">>, <<"Commands:">>, <<"help /help">>, <<"help /list">>,
       <<"help /create">>, <<"help /join">>, <<"help /leave">>,
       <<"help /name">>, <<"help /quit">>, <<"\n">> >>

VARIABLES
    now,            \* time.Now(), in clock units
    conn,           \* conn[c]: "none" | "open" | "peerClosed" | "closed"
    reader,         \* Client.Read of c: "off" | "reading" | "sending" | "exited"
    readerMsg,      \* the Message Client.Read is sending on client.incoming
    relay,          \* the goroutine of Lobby.Join: "off" | "recv" | "fwd" | "leave" | "done"
    relayMsg,       \* the Message the relay is sending on lobby.incoming
    writer,         \* Client.Write of c: "off" | "recv" | "stopped" | "done"
    outClosed,      \* client.outgoing is closed
    outLog,         \* the strings received from client.outgoing, in order
    name,           \* client.name
    chatRoom,       \* client.chatRoom: a room id or nil
    clientsArr,     \* the backing array of lobby.clients
    clientsLen,     \* len(lobby.clients)
    chatRooms,      \* lobby.chatRooms: name -> room id or nil
    rooms,          \* the ChatRoom objects, by id
    nRooms,         \* ChatRoom objects allocated
    timers,         \* the deletion goroutines: [room, wake, asleep]; one that is not
                    \* asleep has not yet read the time it sleeps to
    mainPc,         \* the acceptor: [at |-> "accept"] | [at |-> "append", c, len] | [at |-> "welcome", c]
    todo,           \* the rest of the Lobby's handler: a sequence of operations
    panicked,       \* a goroutine panicked: the process is gone
    nLines,         \* lines read so far
    nCreates,       \* "/create" lines read so far
    handling,       \* the event Lobby.Listen received last
    nEvents,        \* the events Lobby.Listen has received
    bcastLog,       \* history variable: the texts passed to Broadcast, by room
    joinMark,       \* history variable: when c last entered ChatRoom.Join, the room,
                    \* Len(outLog[c]), the room's history and c's name
    readLog,        \* history variable: the texts of the Messages Client.Read made
    handledLog      \* history variable: the texts Lobby.Parse was called with, and
                    \* <<"leave">> for a call of Lobby.Leave, by client

vars ==
    <<now, conn, reader, readerMsg, relay, relayMsg, writer, outClosed, outLog,
      name, chatRoom, clientsArr, clientsLen, chatRooms, rooms, nRooms, timers,
      mainPc, todo, panicked, nLines, nCreates, handling, nEvents, bcastLog,
      joinMark, readLog, handledLog>>

\* The Message of NewMessage: time, client, text.
NoMsg == [time |-> 0, client |-> nil, text |-> <<>>]
NewMessage(t, c, text) == [time |-> t, client |-> c, text |-> text]

\* NewChatRoom
NewChatRoom(n, t) ==
    [name |-> n, clients |-> <<>>, messages |-> <<>>, expiry |-> t + ExpiryTime]
NoRoom == [name |-> "", clients |-> <<>>, messages |-> <<>>, expiry |-> 0]

\* lobby.clients as the program reads it.
LobbyClients == SubSeq(clientsArr, 1, clientsLen)

Range(s) == {s[i] : i \in DOMAIN s}

\* s without its first occurrence of x (the loops of Lobby.Leave and ChatRoom.Leave)
RECURSIVE RemoveFirst(_, _)
RemoveFirst(s, x) ==
    IF s = <<>> THEN <<>>
    ELSE IF Head(s) = x THEN Tail(s)
    ELSE <<Head(s)>> \o RemoveFirst(Tail(s), x)

NoJoin == [room |-> nil, at |-> 0, hist |-> <<>>, name |-> ""]

Init ==
    /\ now = 0
    /\ conn = [c \in Clients |-> "none"]
    /\ reader = [c \in Clients |-> "off"]
    /\ readerMsg = [c \in Clients |-> NoMsg]
    /\ relay = [c \in Clients |-> "off"]
    /\ relayMsg = [c \in Clients |-> NoMsg]
    /\ writer = [c \in Clients |-> "off"]
    /\ outClosed = [c \in Clients |-> FALSE]
    /\ outLog = [c \in Clients |-> <<>>]
    /\ name = [c \in Clients |-> ClientName]
    /\ chatRoom = [c \in Clients |-> nil]
    /\ clientsArr = <<>>
    /\ clientsLen = 0
    /\ chatRooms = [n \in RoomNames |-> nil]
    /\ rooms = [r \in RoomIds |-> NoRoom]
    /\ nRooms = 0
    /\ timers = {}
    /\ mainPc = [at |-> "accept"]
    /\ todo = <<>>
    /\ panicked = FALSE
    /\ nLines = 0
    /\ nCreates = 0
    /\ handling = [kind |-> "none"]
    /\ nEvents = 0
    /\ bcastLog = [r \in RoomIds |-> <<>>]
    /\ joinMark = [c \in Clients |-> NoJoin]
    /\ readLog = [c \in Clients |-> <<>>]
    /\ handledLog = [c \in Clients |-> <<>>]

\* ------------------------------------------------------------------------
\* The state the Lobby's handlers work on, as one record.  A handler is a
\* sequence of operations (todo); an operation that does not block is applied
\* at once, a send on client.outgoing waits for Client.Write to receive.
LobbyState ==
    [conn |-> conn, writer |-> writer, outClosed |-> outClosed, name |-> name,
     chatRoom |-> chatRoom,
     clientsArr |-> clientsArr, clientsLen |-> clientsLen, chatRooms |-> chatRooms,
     rooms |-> rooms, nRooms |-> nRooms, timers |-> timers, todo |-> todo,
     bcastLog |-> bcastLog, joinMark |-> joinMark]

SetLobbyState(st) ==
    /\ conn' = st.conn
    /\ writer' = st.writer
    /\ outClosed' = st.outClosed
    /\ name' = st.name
    /\ chatRoom' = st.chatRoom
    /\ clientsArr' = st.clientsArr
    /\ clientsLen' = st.clientsLen
    /\ chatRooms' = st.chatRooms
    /\ rooms' = st.rooms
    /\ nRooms' = st.nRooms
    /\ timers' = st.timers
    /\ todo' = st.todo
    /\ bcastLog' = st.bcastLog
    /\ joinMark' = st.joinMark

\* One send on client.outgoing for every element of a sequence.
SendEach(cs, text) == [i \in DOMAIN cs |-> <<"send", cs[i], text>>]
SendAll(c, texts) == [i \in DOMAIN texts |-> <<"send", c, texts[i]>>]

\* A Broadcast that puts the line at the front of the history: what the
\* history properties must tell apart from ChatRoom.Broadcast.
BroadcastPrepend(st, r, text, t) ==
    [st EXCEPT !.rooms[r].expiry = t + ExpiryTime,
               !.rooms[r].messages = <<text>> \o @,
               !.bcastLog[r] = Append(@, text),
               !.todo = SendEach(st.rooms[r].clients, text) \o @]

\* A Broadcast that does not refresh the expiry.
BroadcastKeepsExpiry(st, r, text, t) ==
    [st EXCEPT !.rooms[r].messages = Append(@, text),
               !.bcastLog[r] = Append(@, text),
               !.todo = SendEach(st.rooms[r].clients, text) \o @]

\* ChatRoom.Broadcast: the expiry, the history, then a send to every member.
Broadcast(st, r, text, t) ==
    [st EXCEPT !.rooms[r].expiry = t + ExpiryTime,
               !.rooms[r].messages = Append(@, text),
               !.bcastLog[r] = Append(@, text),
               !.todo = SendEach(st.rooms[r].clients, text) \o @]

\* A ChatRoom.Join without the replay of the history.
ChatRoomJoinBeginNoReplay(st, r, c, len) ==
    [st EXCEPT !.chatRoom[c] = r,
               !.joinMark[c] = [room |-> r, at |-> len, hist |-> st.rooms[r].messages,
                                name |-> st.name[c]]]

\* ChatRoom.Join up to its Broadcast: the room reference, then the replay.
ChatRoomJoinBegin(st, r, c, len) ==
    [st EXCEPT !.chatRoom[c] = r,
               !.joinMark[c] = [room |-> r, at |-> len, hist |-> st.rooms[r].messages,
                                name |-> st.name[c]],
               !.todo = SendAll(c, st.rooms[r].messages) \o @]

\* ChatRoom.Join after the replay: the membership, then the join notice.
ChatRoomJoinEnd(st, r, c, t) ==
    Broadcast([st EXCEPT !.rooms[r].clients = Append(@, c)], r,
              NoticeRoomJoin(st.name[c]), t)

\* ChatRoom.Leave after its Broadcast: the membership, then the room reference.
ChatRoomLeaveEnd(st, r, c) ==
    [st EXCEPT !.rooms[r].clients = RemoveFirst(@, c),
               !.chatRoom[c] = nil]

\* A ChatRoom.Delete that leaves the members' room references in place.
ChatRoomDeleteEndKeepsRefs(st, r) ==
    [st EXCEPT !.chatRooms[st.rooms[r].name] = nil]

\* ChatRoom.Delete after its Broadcast, then delete(lobby.chatRooms, name).
ChatRoomDeleteEnd(st, r) ==
    [st EXCEPT !.chatRoom = [c \in Clients |->
                                IF c \in Range(st.rooms[r].clients) THEN nil ELSE @[c]],
               !.chatRooms[st.rooms[r].name] = nil]

\* Lobby.Leave after the room: the roster (the elements after the first
\* occurrence move down one place, the last cell keeps its content), then
\* close(client.outgoing), which ends the range of a waiting Client.Write.
\* Closing a closed channel panics.
LobbyLeaveEnd(st, c) ==
    LET cur == SubSeq(st.clientsArr, 1, st.clientsLen)
        found == c \in Range(cur)
        moved == RemoveFirst(cur, c)
                    \o SubSeq(st.clientsArr, st.clientsLen, Len(st.clientsArr))
    IN  [st EXCEPT !.clientsArr = IF found THEN moved ELSE @,
                   !.clientsLen = IF found THEN @ - 1 ELSE @,
                   !.outClosed[c] = TRUE,
                   !.writer[c] = IF @ = "recv" THEN "done" ELSE @,
                   !.todo = IF st.outClosed[c] THEN << <<"panic">> >> ELSE @]

\* A CreateChatRoom that starts two timer goroutines for the room.
CreateRoomTwoTimers(st, c, n, t) ==
    LET r == st.nRooms + 1
    IN  [st EXCEPT !.nRooms = r,
                   !.rooms[r] = NewChatRoom(n, t),
                   !.chatRooms[n] = r,
                   !.timers = @ \cup {[room |-> r, wake |-> t + ExpiryTime, asleep |-> TRUE],
                                      [room |-> r, wake |-> t + ExpiryTime, asleep |-> FALSE]},
                   !.todo = << <<"send", c, NoticePersonalCreate(n)>> >> \o @]

\* Lobby.CreateChatRoom when the name is free: the room, the directory, the
\* timer goroutine, then the confirmation.
CreateRoom(st, c, n, t) ==
    LET r == st.nRooms + 1
    IN  [st EXCEPT !.nRooms = r,
                   !.rooms[r] = NewChatRoom(n, t),
                   !.chatRooms[n] = r,
                   !.timers = @ \cup {[room |-> r, wake |-> t + ExpiryTime, asleep |-> TRUE]},
                   !.todo = << <<"send", c, NoticePersonalCreate(n)>> >> \o @]

\* Client.Quit: conn.Close()
Quit(st, c) == [st EXCEPT !.conn[c] = "closed"]

\* A ChangeName that forgets the assignment of client.name.
SetNameForgotten(st, c, n) == st

\* client.name = name, the last statement of Lobby.ChangeName
SetName(st, c, n) == [st EXCEPT !.name[c] = n]

\* The first operation of todo, applied.
ApplyOp(st, t, lens) ==
    LET op == Head(st.todo)
        s == [st EXCEPT !.todo = Tail(@)]
    IN  CASE op[1] = "bcast" -> Broadcast(s, op[2], op[3], t)
          [] op[1] = "joinBegin" -> ChatRoomJoinBegin(s, op[2], op[3], lens[op[3]])
          [] op[1] = "joinEnd" -> ChatRoomJoinEnd(s, op[2], op[3], t)
          [] op[1] = "leaveEnd" -> ChatRoomLeaveEnd(s, op[2], op[3])
          [] op[1] = "deleteEnd" -> ChatRoomDeleteEnd(s, op[2])
          [] op[1] = "lobbyLeaveEnd" -> LobbyLeaveEnd(s, op[2])
          [] op[1] = "create" -> CreateRoom(s, op[2], op[3], t)
          [] op[1] = "quit" -> Quit(s, op[2])
          [] op[1] = "setName" -> SetName(s, op[2], op[3])

\* The handler runs until it blocks on a send, panics or returns.
RECURSIVE Settle(_, _, _)
Settle(st, t, lens) ==
    IF st.todo = <<>> \/ Head(st.todo)[1] \in {"send", "panic"}
    THEN st
    ELSE Settle(ApplyOp(st, t, lens), t, lens)

\* ------------------------------------------------------------ the handlers
\* Each handler as the operations it runs, decided on the state it starts in.

\* A ChatRoom.Leave that removes the client before it broadcasts.
ChatRoomLeaveRemovesFirst(r, c) ==
    << <<"leaveEnd", r, c>>, <<"bcast", r, NoticeRoomLeave(name[c])>> >>

\* ChatRoom.Leave
ChatRoomLeave(r, c) ==
    << <<"bcast", r, NoticeRoomLeave(name[c])>>, <<"leaveEnd", r, c>> >>

\* ChatRoom.Join
ChatRoomJoin(r, c) == << <<"joinBegin", r, c>>, <<"joinEnd", r, c>> >>

\* A Lobby.Leave that leaves the client in its room.
LobbyLeaveKeepsRoom(c) == << <<"lobbyLeaveEnd", c>> >>

\* Lobby.Leave
LobbyLeave(c) ==
    (IF chatRoom[c] # nil THEN ChatRoomLeave(chatRoom[c], c) ELSE <<>>)
        \o << <<"lobbyLeaveEnd", c>> >>

\* Lobby.SendMessage
SendMessage(m) ==
    IF chatRoom[m.client] = nil
    THEN << <<"send", m.client, ErrorSend>> >>
    ELSE << <<"bcast", chatRoom[m.client],
              MessageString(m.time, name[m.client], m.text)>> >>

\* A CreateChatRoom without the test of the directory.
CreateChatRoomUnchecked(c, n) == << <<"create", c, n>> >>

\* Lobby.CreateChatRoom
CreateChatRoom(c, n) ==
    IF chatRooms[n] # nil
    THEN << <<"send", c, ErrorCreate>> >>
    ELSE << <<"create", c, n>> >>

\* Lobby.LeaveChatRoom
LeaveChatRoom(c) ==
    IF chatRoom[c] = nil
    THEN << <<"send", c, ErrorLeave>> >>
    ELSE ChatRoomLeave(chatRoom[c], c)

\* A JoinChatRoom that does not leave the client's current room first.
JoinChatRoomKeepsOld(c, n) ==
    IF chatRooms[n] = nil
    THEN << <<"send", c, ErrorJoin>> >>
    ELSE ChatRoomJoin(chatRooms[n], c)

\* A JoinChatRoom that leaves the client's room before it tests the directory.
JoinChatRoomLeavesFirst(c, n) ==
    (IF chatRoom[c] # nil THEN LeaveChatRoom(c) ELSE <<>>)
        \o (IF chatRooms[n] = nil
            THEN << <<"send", c, ErrorJoin>> >>
            ELSE ChatRoomJoin(chatRooms[n], c))

\* Lobby.JoinChatRoom
JoinChatRoom(c, n) ==
    IF chatRooms[n] = nil
    THEN << <<"send", c, ErrorJoin>> >>
    ELSE (IF chatRoom[c] # nil THEN LeaveChatRoom(c) ELSE <<>>)
            \o ChatRoomJoin(chatRooms[n], c)

\* Lobby.ChangeName
ChangeName(c, n) ==
    (IF chatRoom[c] = nil
     THEN << <<"send", c, NoticePersonalName(n)>> >>
     ELSE << <<"bcast", chatRoom[c], NoticeRoomName(name[c], n)>> >>)
        \o << <<"setName", c, n>> >>

\* Lobby.ListChatRooms: the names come in the order of a Go map iteration,
\* which is any order.
ListChatRooms(c) ==
    LET live == {n \in RoomNames : chatRooms[n] # nil}
        orders == {o \in [1..Cardinality(live) -> live] :
                      \A i, j \in DOMAIN o : o[i] = o[j] => i = j}
    IN  {SendAll(c, << <<"\n">>, <<"Chat Rooms:">> >>
                       \o [i \in DOMAIN o |-> <<"room", o[i]>>]
                       \o << <<"\n">> >>) : o \in orders}

\* Lobby.Help
Help(c) == SendAll(c, HelpLines)

\* strings.HasPrefix(message.text, cmd), on words
HasPrefix(text, cmd) == Len(text) > 0 /\ text[1] = cmd

\* strings.TrimSuffix(strings.TrimPrefix(message.text, cmd+" "), "\n"): the
\* text itself when nothing follows the command.
TrimPrefix(text) == IF Len(text) > 1 THEN text[2] ELSE text[1]

\* Lobby.Parse: the cases in the order of the switch.  The set of the
\* operation sequences the handler may run.
Parse(m) ==
    CASE HasPrefix(m.text, "/create") -> {CreateChatRoom(m.client, TrimPrefix(m.text))}
      [] HasPrefix(m.text, "/list") -> ListChatRooms(m.client)
      [] HasPrefix(m.text, "/join") -> {JoinChatRoom(m.client, TrimPrefix(m.text))}
      [] HasPrefix(m.text, "/leave") -> {LeaveChatRoom(m.client)}
      [] HasPrefix(m.text, "/name") -> {ChangeName(m.client, TrimPrefix(m.text))}
      [] HasPrefix(m.text, "/help") -> {Help(m.client)}
      [] HasPrefix(m.text, "/quit") -> {<< <<"quit", m.client>> >>}
      [] OTHER -> {SendMessage(m)}

\* Lobby.DeleteChatRoom when the room has expired
DeleteChatRoom(r) == << <<"bcast", r, NoticeRoomDelete>>, <<"deleteEnd", r>> >>

\* The handler starts: it runs to its first send, or to its end.
HandleFrom(st, ops) ==
    SetLobbyState(Settle([st EXCEPT !.todo = ops], now,
                         [c \in Clients |-> Len(outLog[c])]))
Handle(ops) == HandleFrom(LobbyState, ops)

\* ----------------------------------------------------------- the sockets
\* What writer.WriteString and writer.Flush can return on the connection:
\* TRUE for no error.  A connection closed here fails; one closed by the peer
\* may accept the bytes or fail.
WriteResults(cn) ==
    CASE cn = "open" -> {TRUE}
      [] cn = "peerClosed" -> {TRUE, FALSE}
      [] OTHER -> {FALSE}

\* Client.Write after it received a string: back to the range, or out of the loop.
WriterAfter(ok) == IF ok THEN "recv" ELSE "stopped"

\* ------------------------------------------------------------ the actions
lobbyVars ==
    <<conn, writer, outClosed, name, chatRoom, clientsArr, clientsLen, chatRooms,
      rooms, nRooms, timers, todo, bcastLog, joinMark>>
pumpVars == <<reader, readerMsg, relay, relayMsg>>

\* main: listener.Accept, NewClient (the two pumps start), and Lobby.Join up
\* to its append: the capacity check, with Client.Quit when the lobby is full.
\* Lobby.Join runs in the acceptor's goroutine, not in the Lobby's.
Accept(c) ==
    /\ ~panicked
    /\ mainPc.at = "accept"
    /\ conn[c] = "none"
    /\ \A d \in Clients : d < c => conn[d] # "none"
    /\ reader' = [reader EXCEPT ![c] = "reading"]
    /\ writer' = [writer EXCEPT ![c] = "recv"]
    /\ IF clientsLen >= MaxClients
       THEN /\ conn' = Quit(LobbyState, c).conn
            /\ UNCHANGED mainPc
       ELSE /\ conn' = [conn EXCEPT ![c] = "open"]
            /\ mainPc' = [at |-> "append", c |-> c, len |-> clientsLen]
    /\ UNCHANGED <<now, readerMsg, relay, relayMsg, outClosed, outLog, name, chatRoom,
                   clientsArr, clientsLen, chatRooms, rooms, nRooms, timers, todo,
                   panicked, nLines, nCreates, handling, nEvents, bcastLog, joinMark>>
    /\ UNCHANGED <<readLog, handledLog>>

\* lobby.clients = append(lobby.clients, client): the element goes where the
\* length read by this goroutine says, whatever Lobby.Leave did since.  The
\* slice header this goroutine stores and the one a Lobby.Leave stored since
\* the read are unordered writes of one variable: either is the one that stays.
JoinAppend ==
    /\ ~panicked
    /\ mainPc.at = "append"
    /\ clientsArr' = IF mainPc.len < Len(clientsArr)
                     THEN [clientsArr EXCEPT ![mainPc.len + 1] = mainPc.c]
                     ELSE Append(clientsArr, mainPc.c)
    /\ \/ clientsLen' = mainPc.len + 1
       \/ clientsLen < mainPc.len /\ clientsLen' = clientsLen
    /\ mainPc' = [at |-> "welcome", c |-> mainPc.c]
    /\ UNCHANGED <<now, conn, writer, outClosed, outLog, name, chatRoom, chatRooms,
                   rooms, nRooms, timers, todo, panicked, nLines, nCreates, handling, nEvents, bcastLog,
                   joinMark>>
    /\ UNCHANGED pumpVars
    /\ UNCHANGED <<readLog, handledLog>>

\* The relay goroutine of Lobby.Join at its range over client.incoming: it
\* takes the Message Client.Read is sending, ends when the channel is closed,
\* and waits otherwise.
RelayRange(c) ==
    /\ relay' = [relay EXCEPT ![c] = CASE reader[c] = "sending" -> "fwd"
                                       [] reader[c] = "exited" -> "leave"
                                       [] OTHER -> "recv"]
    /\ relayMsg' = [relayMsg EXCEPT ![c] = readerMsg[c]]
    /\ reader' = [reader EXCEPT ![c] = IF @ = "sending" THEN "reading" ELSE @]
    /\ readerMsg' = [readerMsg EXCEPT ![c] = NoMsg]

\* client.outgoing <- MsgConnect, then the relay goroutine starts.
JoinWelcome ==
    /\ ~panicked
    /\ mainPc.at = "welcome"
    /\ LET c == mainPc.c
       IN  IF outClosed[c]
           THEN /\ panicked' = TRUE
                /\ UNCHANGED <<writer, outLog, mainPc>>
                /\ UNCHANGED pumpVars
           ELSE /\ writer[c] = "recv"
                /\ \E ok \in WriteResults(conn[c]) :
                      writer' = [writer EXCEPT ![c] = WriterAfter(ok)]
                /\ outLog' = [outLog EXCEPT ![c] = Append(@, MsgConnect)]
                /\ RelayRange(c)
                /\ mainPc' = [at |-> "accept"]
                /\ UNCHANGED panicked
    /\ UNCHANGED <<now, conn, outClosed, name, chatRoom, clientsArr, clientsLen,
                   chatRooms, rooms, nRooms, timers, todo, nLines, nCreates, handling, nEvents, bcastLog,
                   joinMark>>
    /\ UNCHANGED <<readLog, handledLog>>

\* Client.Read: reader.ReadString returns a line, and the Message is sent on
\* client.incoming: to the relay when it is at its range, and waiting for it
\* otherwise.
ReadLine(c, line, max) ==
    /\ ~panicked
    /\ reader[c] = "reading"
    /\ conn[c] = "open"
    /\ nLines < max
    /\ HasPrefix(line, "/create") => nCreates < MaxRooms
    /\ IF relay[c] = "recv"
       THEN /\ relay' = [relay EXCEPT ![c] = "fwd"]
            /\ relayMsg' = [relayMsg EXCEPT ![c] = NewMessage(now, c, line)]
            /\ UNCHANGED <<reader, readerMsg>>
       ELSE /\ reader' = [reader EXCEPT ![c] = "sending"]
            /\ readerMsg' = [readerMsg EXCEPT ![c] = NewMessage(now, c, line)]
            /\ UNCHANGED <<relay, relayMsg>>
    /\ nLines' = nLines + 1
    /\ nCreates' = IF HasPrefix(line, "/create") THEN nCreates + 1 ELSE nCreates
    /\ UNCHANGED <<now, outLog, mainPc, panicked, handling, nEvents>>
    /\ UNCHANGED lobbyVars
    /\ UNCHANGED <<handledLog>>
    /\ readLog' = [readLog EXCEPT ![c] = Append(@, line)]

\* Client.Read: reader.ReadString returns an error; close(client.incoming),
\* which ends the range of a waiting relay: lobby.leave <- client is next.
ReadFail(c) ==
    /\ ~panicked
    /\ reader[c] = "reading"
    /\ conn[c] \in {"peerClosed", "closed"}
    /\ reader' = [reader EXCEPT ![c] = "exited"]
    /\ relay' = [relay EXCEPT ![c] = IF @ = "recv" THEN "leave" ELSE @]
    /\ UNCHANGED <<now, readerMsg, relayMsg, outLog, mainPc, panicked, nLines, nCreates, handling, nEvents>>
    /\ UNCHANGED lobbyVars
    /\ UNCHANGED <<readLog, handledLog>>

\* The peer closes or loses the connection.
PeerClose(c) ==
    /\ ~panicked
    /\ conn[c] = "open"
    /\ Cardinality({d \in Clients : conn[d] = "peerClosed"}) < MaxPeerCloses
    /\ conn' = [conn EXCEPT ![c] = "peerClosed"]
    /\ UNCHANGED <<now, writer, outClosed, outLog, name, chatRoom, clientsArr,
                   clientsLen, chatRooms, rooms, nRooms, timers, mainPc, todo, panicked,
                   nLines, nCreates, handling, nEvents, bcastLog, joinMark>>
    /\ UNCHANGED pumpVars
    /\ UNCHANGED <<readLog, handledLog>>

\* Time passes while a deletion goroutine exists.
Tick ==
    /\ ~panicked
    /\ now < MaxTime
    /\ timers # {}
    /\ now' = now + 1
    /\ UNCHANGED <<outLog, mainPc, panicked, nLines, nCreates, handling, nEvents>>
    /\ UNCHANGED pumpVars
    /\ UNCHANGED lobbyVars
    /\ UNCHANGED <<readLog, handledLog>>

\* Lobby.Listen, case message := <-lobby.incoming: lobby.Parse(message)
LobbyIncoming(c) ==
    /\ ~panicked
    /\ todo = <<>>
    /\ relay[c] = "fwd"
    /\ RelayRange(c)
    /\ \E ops \in Parse(relayMsg[c]) : Handle(ops)
    /\ handling' = [kind |-> "incoming", client |-> c, text |-> relayMsg[c].text]
    /\ nEvents' = nEvents + 1
    /\ UNCHANGED <<now, outLog, mainPc, panicked, nLines, nCreates>>
    /\ UNCHANGED <<readLog>>
    /\ handledLog' = [handledLog EXCEPT ![c] = Append(@, relayMsg[c].text)]

\* Lobby.Listen, case client := <-lobby.leave: lobby.Leave(client)
LobbyLeaveEvent(c) ==
    /\ ~panicked
    /\ todo = <<>>
    /\ relay[c] = "leave"
    /\ relay' = [relay EXCEPT ![c] = "done"]
    /\ Handle(LobbyLeave(c))
    /\ handling' = [kind |-> "leave", client |-> c]
    /\ nEvents' = nEvents + 1
    /\ UNCHANGED <<now, reader, readerMsg, relayMsg, outLog, mainPc, panicked, nLines,
                   nCreates>>
    /\ UNCHANGED <<readLog>>
    /\ handledLog' = [handledLog EXCEPT ![c] = Append(@, <<"leave">>)]

\* The goroutine DeleteChatRoom starts for a room that has not expired:
\* time.Sleep(chatRoom.expiry.Sub(time.Now())).  It reads chatRoom.expiry
\* when it runs, which is when the check started it or any time later, so it
\* reads that expiry or one a later Broadcast has stored; a duration that is
\* not positive is no sleep.
TimerSleep(tm) ==
    /\ ~panicked
    /\ ~tm.asleep
    /\ timers' = (timers \ {tm})
                    \cup {[room |-> tm.room, asleep |-> TRUE,
                           wake |-> IF rooms[tm.room].expiry > now
                                    THEN rooms[tm.room].expiry ELSE now]}
    /\ UNCHANGED <<now, conn, writer, outClosed, outLog, name, chatRoom, clientsArr,
                   clientsLen, chatRooms, rooms, nRooms, mainPc, todo, panicked,
                   nLines, nCreates, handling, nEvents, bcastLog, joinMark>>
    /\ UNCHANGED pumpVars
    /\ UNCHANGED <<readLog, handledLog>>

\* Lobby.Listen, case chatRoom := <-lobby.delete: lobby.DeleteChatRoom(chatRoom).
\* The timer goroutine has slept to its wake time and sends the room; a room
\* whose expiry is after now gets a new timer goroutine instead.
LobbyDeleteEvent(tm) ==
    /\ ~panicked
    /\ todo = <<>>
    /\ tm.asleep
    /\ tm.wake <= now
    /\ IF rooms[tm.room].expiry > now
       THEN /\ timers' = (timers \ {tm})
                            \cup {[room |-> tm.room, wake |-> now, asleep |-> FALSE]}
            /\ UNCHANGED <<conn, writer, outClosed, name, chatRoom, clientsArr,
                           clientsLen, chatRooms, rooms, nRooms, todo, bcastLog, joinMark>>
       ELSE HandleFrom([LobbyState EXCEPT !.timers = @ \ {tm}],
                       DeleteChatRoom(tm.room))
    /\ handling' = [kind |-> "delete", room |-> tm.room,
                    expired |-> ~(rooms[tm.room].expiry > now)]
    /\ nEvents' = nEvents + 1
    /\ UNCHANGED <<now, outLog, mainPc, panicked, nLines, nCreates>>
    /\ UNCHANGED pumpVars
    /\ UNCHANGED <<readLog, handledLog>>

\* The handler's send on client.outgoing: Client.Write receives the string and
\* writes it to the socket, and the handler runs on to its next send.  With
\* no Client.Write at the range the send does not happen; on a closed channel
\* it panics.
LobbySend ==
    /\ ~panicked
    /\ todo # <<>>
    /\ LET op == Head(todo)
       IN  IF op[1] = "panic" \/ outClosed[op[2]]
           THEN /\ panicked' = TRUE
                /\ UNCHANGED outLog
                /\ UNCHANGED lobbyVars
           ELSE /\ writer[op[2]] = "recv"
                /\ outLog' = [outLog EXCEPT ![op[2]] = Append(@, op[3])]
                /\ \E ok \in WriteResults(conn[op[2]]) :
                      SetLobbyState(
                          Settle([LobbyState EXCEPT !.writer[op[2]] = WriterAfter(ok),
                                                    !.todo = Tail(todo)],
                                 now, [c \in Clients |-> Len(outLog'[c])]))
                /\ UNCHANGED panicked
    /\ UNCHANGED <<now, mainPc, nLines, nCreates, handling, nEvents>>
    /\ UNCHANGED pumpVars
    /\ UNCHANGED <<readLog, handledLog>>

\* The steps that serve connections: lines of the set `lines`, at most `max`
\* of them, on the first `n` connections.
Serve(lines, max, n) ==
    \/ \E c \in 1..n : Accept(c)
    \/ JoinAppend
    \/ JoinWelcome
    \/ \E c \in 1..n, line \in lines : ReadLine(c, line, max)
    \/ \E c \in 1..n : LobbyIncoming(c)
    \/ LobbySend

\* The steps that expire chat rooms.
Expire ==
    \/ Tick
    \/ \E tm \in timers : LobbyDeleteEvent(tm)

\* The steps that end a connection.
Disconnect ==
    \/ \E c \in Clients : PeerClose(c)
    \/ \E c \in Clients : ReadFail(c)
    \/ \E c \in Clients : LobbyLeaveEvent(c)

\* Every step is guarded by ~panicked: a panic ends the process.  With one
\* line no room has a member, so no room is broadcast to and no check finds
\* its room not expired.
Next == Serve(Lines, MaxLines, NumClients) \/ Expire \/ Disconnect

Spec == Init /\ [][Next]_vars

\* The goroutines of the checks that found their room not expired.
Rearm == \E tm \in timers : TimerSleep(tm)

\* The runs in which no connection ends: more lines, on fewer connections.
NextRooms == Serve(RoomLines, RoomLinesMax, RoomClients) \/ Expire \/ Rearm

SpecRooms == Init /\ [][NextRooms]_vars

\* The runs shorter than a clock unit in which no connection ends.
NextChat == Serve(RoomLines, ChatLinesMax, RoomClients)

SpecChat == Init /\ [][NextChat]_vars

\* The runs in which a client renames itself: one room, one new name.
NameLines == {<<"/create", "r1">>, <<"/join", "r1">>, <<"/name", "Bob">>, <<"hi">>}

NextName == Serve(NameLines, NameLinesMax, RoomClients)

SpecName == Init /\ [][NextName]_vars

\* The runs in which connections end, on fewer connections.
NextFail == Serve(Lines, FailLinesMax, FailClients) \/ Disconnect

\* The Go scheduler runs every goroutine that can take a step, and a read on
\* a connection that has ended returns.
Fairness ==
    /\ WF_vars(JoinAppend \/ JoinWelcome)
    /\ WF_vars(\E c \in Clients : ReadFail(c))
    /\ WF_vars(LobbySend)
    /\ WF_vars(\E c \in Clients : LobbyIncoming(c) \/ LobbyLeaveEvent(c))

FairSpec == Init /\ [][NextFail]_vars /\ Fairness

\* The runs in which connections end and rooms expire.
NextExpire ==
    Serve(Lines, FailLinesMax, ExpireClients) \/ Disconnect \/ Expire \/ Rearm

\* Time passes, a goroutine that can sleep does, and the Lobby receives from
\* a timer goroutine that has slept.
TimerFairness ==
    /\ WF_vars(Tick)
    /\ WF_vars(\E tm \in timers : TimerSleep(tm))
    /\ WF_vars(\E tm \in timers : LobbyDeleteEvent(tm))

FairExpireSpec == Init /\ [][NextExpire]_vars /\ Fairness /\ TimerFairness

\* The runs in which no peer ends a connection: connections end by
\* Client.Quit only, on more connections than the lobby admits.
NextQuit ==
    \/ Serve(Lines, MaxLines, NumClients)
    \/ \E c \in Clients : ReadFail(c)
    \/ \E c \in Clients : LobbyLeaveEvent(c)

FairQuitSpec == Init /\ [][NextQuit]_vars /\ Fairness

\* The runs in which connections end in rooms that are used and expire
\* afterwards: one room.
CloseLines == {<<"/create", "r1">>, <<"/join", "r1">>, <<"hi">>, <<"/quit">>}

NextClose ==
    Serve(CloseLines, RoomLinesMax, RoomClients) \/ Disconnect \/ Expire \/ Rearm

SpecClose == Init /\ [][NextClose]_vars

\* ----------------------------------------------------------------- claims
Live == {r \in RoomIds : r <= nRooms /\ chatRooms[rooms[r].name] = r}
Members(r) == Range(rooms[r].clients)
Last(s) == s[Len(s)]
IsPrefix(s, t) == Len(s) <= Len(t) /\ SubSeq(t, 1, Len(s)) = s

\* Lobby.Join took its capacity branch for c: no relay goroutine ever starts.
Rejected(c) ==
    /\ conn[c] # "none"
    /\ relay[c] = "off"
    /\ ~(mainPc.at # "accept" /\ mainPc.c = c)

\* C1: the roster never holds more than MaxClients entries, never holds the
\* same client twice, and a client whose Join found the roster full is
\* disconnected and is never in the roster.
C1_RosterBounded ==
    /\ Len(LobbyClients) <= MaxClients
    /\ \A i, j \in DOMAIN LobbyClients : LobbyClients[i] = LobbyClients[j] => i = j
    /\ \A c \in Clients : Rejected(c) => conn[c] = "closed" /\ c \notin Range(LobbyClients)

\* The strings c received from client.outgoing since it last entered ChatRoom.Join.
SinceJoin(c) == SubSeq(outLog[c], joinMark[c].at + 1, Len(outLog[c]))

\* C2: a client that joins a room whose history holds N lines receives those
\* N lines, in their order, then its own join notice, before anything else,
\* so before every line broadcast after the join.
C2_ReplayBeforeJoinNotice ==
    \A c \in Clients :
        joinMark[c].room # nil =>
            LET expect == joinMark[c].hist \o <<NoticeRoomJoin(joinMark[c].name)>>
            IN  \A i \in DOMAIN SinceJoin(c) :
                    i <= Len(expect) => SinceJoin(c)[i] = expect[i]

\* A client replayed a history of at least one line, then got its join notice
\* and a line broadcast later.
C2_Witness ==
    \E c \in Clients :
        /\ todo = <<>>
        /\ joinMark[c].room # nil
        /\ Len(joinMark[c].hist) >= 1
        /\ Len(SinceJoin(c)) >= Len(joinMark[c].hist) + 2
        /\ Last(SinceJoin(c))[1] = "chat"

\* C3: the Lobby's loop never blocks forever: it is always back at its select
\* again, and every Leave a relay submits is processed.
C3_LobbyNeverBlocksForever ==
    /\ []<>(todo = <<>>)
    /\ \A c \in Clients : (relay[c] = "leave") ~> (relay[c] = "done")

\* The /join the Lobby received last, of a name in the directory, has returned.
JoinReturned ==
    /\ todo = <<>>
    /\ handling.kind = "incoming"
    /\ HasPrefix(handling.text, "/join")
    /\ chatRooms[TrimPrefix(handling.text)] # nil

\* C4: a client is a member of at most one chat room and once in its list;
\* after a /join of a room of the directory it is a member of that room only.
C4_AtMostOneRoom ==
    /\ \A c \in Clients : Cardinality({r \in Live : c \in Members(r)}) <= 1
    /\ \A r \in Live : \A i, j \in DOMAIN rooms[r].clients :
            rooms[r].clients[i] = rooms[r].clients[j] => i = j
    /\ JoinReturned =>
            LET c == handling.client
                r == chatRooms[TrimPrefix(handling.text)]
            IN  /\ chatRoom[c] = r
                /\ c \in Members(r)
                /\ \A q \in Live \ {r} : c \notin Members(q)

\* A /join has moved the client from another room, whose history ends with
\* the client's leave notice.
C4_Witness ==
    /\ JoinReturned
    /\ \E q \in Live \ {chatRoom[handling.client]} :
            /\ rooms[q].messages # <<>>
            /\ Last(rooms[q].messages) = NoticeRoomLeave(name[handling.client])
            /\ NoticeRoomLeave(name[handling.client]) \in Range(outLog[handling.client])

\* A step of the Lobby goroutine.
LobbyStep == nEvents' # nEvents \/ todo' # todo

\* C5: the deletion of an expired room disconnects nobody and removes nobody
\* from the roster; when it is done every member's room reference is nil, its
\* outgoing channel is open, and the name is free for a /create.
C5_DeleteKeepsMembersConnected ==
    [][(LobbyStep /\ handling'.kind = "delete" /\ handling'.expired) =>
        \A r \in RoomIds, n \in RoomNames :
            (r = handling'.room /\ n = rooms[r].name) =>
                /\ clientsArr' = clientsArr
                /\ clientsLen' = clientsLen
                /\ conn' = conn
                /\ outClosed' = outClosed
                /\ todo' = <<>> =>
                    /\ \A c \in Range(rooms[r].clients) :
                            /\ chatRoom'[c] = nil
                            /\ ~outClosed'[c]
                            /\ c \in Range(LobbyClients')
                            /\ (CreateChatRoom(c, n))' = << <<"create", c, n>> >>
                    /\ chatRooms'[n] = nil]_vars

\* A room with a member has been deleted.
C5_Witness ==
    /\ todo = <<>>
    /\ handling.kind = "delete"
    /\ handling.expired
    /\ Members(handling.room) # {}
    /\ \A c \in Members(handling.room) : chatRoom[c] = nil /\ conn[c] = "open"
    /\ chatRooms[rooms[handling.room].name] = nil

\* The sends the running handler has still to make.
PendingSends == SelectSeq(todo, LAMBDA op : op[1] = "send")

\* C6: a /create of a name that is in the directory changes no room, no
\* directory entry and no expiry, starts no timer goroutine, and sends
\* ErrorCreate to the requester and nothing to anybody else.
C6_CreateExistingChangesNothing ==
    [][\A c \in Clients, n \in RoomNames :
        (/\ LobbyStep
         /\ handling' = [kind |-> "incoming", client |-> c, text |-> <<"/create", n>>]
         /\ (nEvents' # nEvents => chatRooms[n] # nil)
         /\ (nEvents' = nEvents => Head(todo) = <<"send", c, ErrorCreate>>))
        => /\ chatRooms' = chatRooms
           /\ rooms' = rooms
           /\ nRooms' = nRooms
           /\ timers' = timers
           /\ IF nEvents' # nEvents
              THEN todo' = << <<"send", c, ErrorCreate>> >> /\ outLog' = outLog
              ELSE todo' = <<>> /\ outLog' = [outLog EXCEPT ![c] = Append(@, ErrorCreate)]]_vars

\* The requester has its ErrorCreate for a room that has a member and a history.
C6_Witness ==
    /\ todo = <<>>
    /\ handling.kind = "incoming"
    /\ HasPrefix(handling.text, "/create")
    /\ Last(<<"">> \o outLog[handling.client]) = ErrorCreate
    /\ chatRooms[TrimPrefix(handling.text)] # nil
    /\ rooms[chatRooms[TrimPrefix(handling.text)]].clients # <<>>
    /\ rooms[chatRooms[TrimPrefix(handling.text)]].messages # <<>>

\* The kinds of line a room broadcasts.
RoomKinds == {"chat", "NoticeRoomJoin", "NoticeRoomLeave", "NoticeRoomName",
              "NoticeRoomDelete"}

\* The room lines c received since it last entered ChatRoom.Join.
RoomLinesSince(c) == SelectSeq(SinceJoin(c), LAMBDA x : x[1] \in RoomKinds)

\* Every history is the sequence of the texts given to Broadcast, and what a
\* member received since its join is the history, up to the sends in progress.
C7_HistoryIsBroadcasts ==
    /\ \A r \in RoomIds : rooms[r].messages = bcastLog[r]
    /\ \A c \in Clients :
        chatRoom[c] # nil =>
            /\ IsPrefix(RoomLinesSince(c), rooms[chatRoom[c]].messages)
            /\ todo = <<>> => RoomLinesSince(c) = rooms[chatRoom[c]].messages

\* C7: a room's history only grows at its end and is the sequence of the
\* texts passed to Broadcast, in call order; the room lines a member received
\* since its join, replay included, are the history in history order.
C7_HistoryAppendOnly ==
    /\ []C7_HistoryIsBroadcasts
    /\ [][\A r \in RoomIds : IsPrefix(rooms[r].messages, rooms'[r].messages)]_vars

\* Two members of a room whose history has three lines or more, the second
\* having joined after the first line, both with the whole history.
C7_Witness ==
    /\ todo = <<>>
    /\ \E r \in Live :
        /\ Len(rooms[r].messages) >= 3
        /\ Cardinality(Members(r)) >= 2
        /\ \E c \in Members(r) : joinMark[c].hist # <<>>
        /\ \A c \in Members(r) : chatRoom[c] = r /\ RoomLinesSince(c) = rooms[r].messages

\* C8: for a client one of whose pumps has failed, Lobby.Leave eventually runs
\* to its end, the close of the outgoing channel, with the client out of its
\* room (what the roster holds then is the matter of C1); the failure of the
\* Write pump does not stop the Read pump nor close the connection, and the
\* failure of the Read pump does not stop the Write pump.
C8_PumpFailureLeadsToLeave ==
    /\ \A c \in Clients :
        (relay[c] # "off" /\ (reader[c] = "exited" \/ writer[c] = "stopped"))
            ~> (outClosed[c] /\ chatRoom[c] = nil)
    /\ [][\A c \in Clients :
            /\ (writer[c] # "stopped" /\ writer'[c] = "stopped")
                    => (reader'[c] = "exited" => reader[c] = "exited") /\ conn'[c] = conn[c]
            /\ (reader[c] # "exited" /\ reader'[c] = "exited")
                    => writer'[c] = writer[c]]_vars

\* C9: a send on the open outgoing channel of a client whose Write pump has
\* stopped does not hold the sender: the step of the send can be taken.
C9_SendAfterWriteFailureProceeds ==
    (/\ todo # <<>>
     /\ Head(todo)[1] = "send"
     /\ writer[Head(todo)[2]] = "stopped"
     /\ ~outClosed[Head(todo)[2]])
        => ENABLED LobbySend

\* The /name the Lobby received last has returned.
NameReturned ==
    /\ todo = <<>>
    /\ handling.kind = "incoming"
    /\ HasPrefix(handling.text, "/name")

\* C10, the states: when /name X has returned the client's name is X, and in
\* a room every member's last line is the rename notice, the last of the history.
C10_NameSet ==
    NameReturned =>
        LET c == handling.client
            x == TrimPrefix(handling.text)
        IN  /\ name[c] = x
            /\ chatRoom[c] # nil =>
                /\ Last(rooms[chatRoom[c]].messages)[1] = "NoticeRoomName"
                /\ Last(rooms[chatRoom[c]].messages)[3] = x
                /\ \A m \in Members(chatRoom[c]) :
                        /\ outLog[m] # <<>>
                        /\ Last(outLog[m]) = Last(rooms[chatRoom[c]].messages)

\* C10, the steps: /name X of a room member appends the notice of the old name
\* and X to the history and sends it once to every member; of a client in no
\* room it touches no room and sends the personal confirmation to the client
\* only; a chat line carries the sender's name of the moment; a name changes
\* only by the client's own /name.
C10_RenameStep ==
    \A c \in Clients :
        /\ \A x \in NewNames :
            (nEvents' # nEvents
                /\ handling' = [kind |-> "incoming", client |-> c, text |-> <<"/name", x>>])
            => IF chatRoom[c] # nil
               THEN /\ rooms'[chatRoom[c]].messages
                        = Append(rooms[chatRoom[c]].messages, NoticeRoomName(name[c], x))
                    /\ c \in Members(chatRoom[c])
                    /\ PendingSends' = SendEach(rooms[chatRoom[c]].clients,
                                                NoticeRoomName(name[c], x))
               ELSE /\ rooms' = rooms
                    /\ PendingSends' = << <<"send", c, NoticePersonalName(x)>> >>
        /\ (nEvents' # nEvents
                /\ handling' = [kind |-> "incoming", client |-> c, text |-> <<"hi">>]
                /\ chatRoom[c] # nil)
            => rooms'[chatRoom[c]].messages
                    = Append(rooms[chatRoom[c]].messages,
                             MessageString(relayMsg[c].time, name[c], <<"hi">>))
        /\ name'[c] # name[c]
            => /\ handling'.kind = "incoming"
               /\ handling'.client = c
               /\ HasPrefix(handling'.text, "/name")
               /\ name'[c] = TrimPrefix(handling'.text)

\* C10: after /name X of a client in a room every member has received one
\* rename notice of the old name and X, the notice is the last of the history,
\* and the client's later chat lines show X; of a client in no room, only the
\* client gets the personal confirmation.
C10_Rename == []C10_NameSet /\ [][C10_RenameStep]_vars

\* A member renamed itself in a room of two, then sent a chat line that shows
\* the new name.
C10_Witness ==
    /\ todo = <<>>
    /\ \E c \in Clients : \E x \in NewNames :
        /\ name[c] = x
        /\ chatRoom[c] # nil
        /\ Cardinality(Members(chatRoom[c])) >= 2
        /\ \A m \in Members(chatRoom[c]) :
            /\ NoticeRoomName(ClientName, x) \in Range(outLog[m])
            /\ outLog[m] # <<>>
            /\ Last(outLog[m])[1] = "chat"
            /\ Last(outLog[m])[3] = x

\* The error notice of a line the Lobby rejects in this state, <<>> for a
\* line it does not reject.
RejectionNotice(c, line) ==
    CASE line = <<"/leave">> /\ chatRoom[c] = nil -> ErrorLeave
      [] line = <<"hi">> /\ chatRoom[c] = nil -> ErrorSend
      [] HasPrefix(line, "/join") /\ chatRooms[TrimPrefix(line)] = nil -> ErrorJoin
      [] OTHER -> <<>>

\* What a rejection leaves alone.
RejectionKeeps ==
    /\ clientsArr' = clientsArr
    /\ clientsLen' = clientsLen
    /\ chatRooms' = chatRooms
    /\ rooms' = rooms
    /\ chatRoom' = chatRoom
    /\ timers' = timers
    /\ name' = name
    /\ outClosed' = outClosed

\* C11: a /leave or a chat line of a client in no room, and a /join of a name
\* that is not in the directory (the client in a room or not), send one error
\* notice to that client and to nobody else, and change neither the roster,
\* the directory, a room's members, history or expiry, nor a room reference.
C11_RejectionChangesNothing ==
    [][\A c \in Clients, line \in RoomLines :
        /\ (nEvents' # nEvents
                /\ handling' = [kind |-> "incoming", client |-> c, text |-> line]
                /\ RejectionNotice(c, line) # <<>>)
            => /\ RejectionKeeps
               /\ outLog' = outLog
               /\ todo' = << <<"send", c, RejectionNotice(c, line)>> >>
        /\ (nEvents' = nEvents
                /\ handling = [kind |-> "incoming", client |-> c, text |-> line]
                /\ todo # <<>>
                /\ todo' # todo
                /\ Head(todo)[3] \in {ErrorLeave, ErrorSend, ErrorJoin})
            => /\ RejectionKeeps
               /\ todo' = <<>>
               /\ outLog' = [outLog EXCEPT ![c] = Append(@, Head(todo)[3])]]_vars

\* A member of a room has its ErrorJoin for a name that is not in the
\* directory, and is still a member of its room.
C11_Witness ==
    /\ todo = <<>>
    /\ handling.kind = "incoming"
    /\ HasPrefix(handling.text, "/join")
    /\ chatRooms[TrimPrefix(handling.text)] = nil
    /\ chatRoom[handling.client] # nil
    /\ handling.client \in Members(chatRoom[handling.client])
    /\ Last(outLog[handling.client]) = ErrorJoin

\* C12: the roster, the directory, the member lists and the histories change
\* only in steps of the Lobby goroutine (the receipt of an event by
\* Lobby.Listen, or the next part of the handler it is running): no step of
\* the acceptor, of a pump, of a relay or of a timer changes them.
C12_OnlyLobbyMutates ==
    [][(\/ clientsArr' # clientsArr
        \/ clientsLen' # clientsLen
        \/ chatRooms' # chatRooms
        \/ \E r \in RoomIds : \/ rooms'[r].clients # rooms[r].clients
                              \/ rooms'[r].messages # rooms[r].messages)
        => LobbyStep]_vars

\* The deletion goroutines of room r.
TimersOf(r) == {tm \in timers : tm.room = r}

\* C13: every broadcast and the creation set the expiry to now + ExpiryTime
\* and nothing else moves it; a deletion check of a room whose expiry is
\* after now starts one goroutine, which sleeps to the expiry it reads, and
\* changes neither the directory nor a room nor a room reference; no
\* goroutine of a room of the directory sleeps beyond the room's expiry; a
\* check deletes
\* only a room whose expiry is not after now, that is, one not broadcast to
\* for ExpiryTime.
C13_NoEarlyDeletion ==
    [][\A r \in RoomIds :
        /\ (rooms'[r].messages # rooms[r].messages \/ (nRooms < r /\ r <= nRooms'))
            => rooms'[r].expiry = now + ExpiryTime
        /\ rooms'[r].expiry # rooms[r].expiry
            => (rooms'[r].messages # rooms[r].messages \/ (nRooms < r /\ r <= nRooms'))
        /\ (nEvents' # nEvents /\ handling'.kind = "delete" /\ handling'.room = r)
            => IF rooms[r].expiry > now
               THEN /\ ~handling'.expired
                    /\ chatRooms' = chatRooms
                    /\ rooms' = rooms
                    /\ chatRoom' = chatRoom
                    /\ todo' = <<>>
                    /\ outLog' = outLog
                    /\ TimersOf(r)' = {[room |-> r, wake |-> now, asleep |-> FALSE]}
               ELSE handling'.expired
        /\ \A tm \in TimersOf(r)' :
                (tm.asleep /\ tm \notin timers /\ r <= nRooms)
                    => tm.wake = IF rooms[r].expiry > now THEN rooms[r].expiry ELSE now
        /\ (r \in Live /\ r \notin Live')
            => /\ handling'.kind = "delete"
               /\ handling'.room = r
               /\ handling'.expired
               /\ bcastLog'[r] # <<>>
               /\ Last(bcastLog'[r]) = NoticeRoomDelete]_vars

\* A check found a room with a member broadcast to since its timer was armed,
\* and started a timer for the new expiry.
C13_Witness ==
    /\ handling.kind = "delete"
    /\ ~handling.expired
    /\ handling.room \in Live
    /\ Members(handling.room) # {}
    /\ TimersOf(handling.room) = {[room |-> handling.room, asleep |-> TRUE,
                                   wake |-> rooms[handling.room].expiry]}
    /\ rooms[handling.room].expiry > now

\* A room of the directory whose expiry has come.
Overdue(r) == r \in Live /\ rooms[r].expiry <= now

\* C14: a room of the directory whose expiry has come is eventually deleted
\* (out of the directory, its members' room references nil), unless it is
\* broadcast to again, which moves its expiry.
C14_UntouchedRoomDeleted ==
    \A r \in RoomIds :
        Overdue(r) ~> (\/ r \in Live /\ rooms[r].expiry > now
                       \/ r \notin Live /\ \A c \in Clients : chatRoom[c] # r)

\* The texts Lobby.Parse was called with for c, in call order.
HandledLines(c) == SelectSeq(handledLog[c], LAMBDA x : x # <<"leave">>)

\* The Messages of c between Client.Read and Lobby.Listen: the one Client.Read
\* is sending on client.incoming, the one the relay is sending on lobby.incoming.
InFlight(c) ==
    (IF reader[c] = "sending" THEN 1 ELSE 0) + (IF relay[c] = "fwd" THEN 1 ELSE 0)

\* No line is handled twice, out of order or without having been read, none
\* is lost on the way, and Lobby.Leave is called once, after every line read.
C15_LinesInOrder ==
    \A c \in Clients :
        /\ IsPrefix(HandledLines(c), readLog[c])
        /\ Len(readLog[c]) = Len(HandledLines(c)) + InFlight(c)
        /\ <<"leave">> \in Range(handledLog[c])
            => /\ Last(handledLog[c]) = <<"leave">>
               /\ HandledLines(c) = readLog[c]
               /\ Len(handledLog[c]) = Len(readLog[c]) + 1
               /\ reader[c] = "exited"

\* C15: every line Client.Read of an admitted client made a Message of is
\* handled by the Lobby, once, the lines of a client in the order they were
\* read, and the client's Leave after all of them.
C15_EveryLineHandledOnce ==
    /\ []C15_LinesInOrder
    /\ \A c \in Clients : []<>(relay[c] = "off" \/ HandledLines(c) = readLog[c])

\* How many times x is in s.
Count(s, x) == Cardinality({i \in DOMAIN s : s[i] = x})

\* The line the Lobby receives makes c leave its room: /leave, or /join of a
\* room of the directory.
LeavesRoom(text) ==
    \/ text = <<"/leave">>
    \/ HasPrefix(text, "/join") /\ chatRooms[TrimPrefix(text)] # nil

\* C16, the steps: when a line makes c leave room r, the departure notice is
\* appended to r's history and one send of it is pending for every member, c
\* among them, c still a member with its reference to r; every pending send
\* is delivered to its client; when c's entry leaves the list every member of
\* before, c included, has the notice as its last line; and when c enters the
\* Join of the room it switches to, the last line it received is that notice.
C16_LeaveStep ==
    /\ \A c \in Clients : \A r \in RoomIds :
        /\ (nEvents' # nEvents /\ handling'.kind = "incoming" /\ handling'.client = c
                /\ chatRoom[c] = r /\ LeavesRoom(handling'.text))
            => /\ rooms'[r].messages
                    = Append(rooms[r].messages, NoticeRoomLeave(name[c]))
               /\ c \in Members(r)
               /\ rooms'[r].clients = rooms[r].clients
               /\ chatRoom'[c] = r
               /\ PendingSends' = SendEach(rooms[r].clients, NoticeRoomLeave(name[c]))
        /\ (c \in Members(r) /\ c \notin Range(rooms'[r].clients))
            => /\ \A m \in Members(r) :
                    /\ outLog'[m] # <<>>
                    /\ outLog'[m][Len(outLog'[m])] = NoticeRoomLeave(name[c])
               /\ rooms'[r].clients = RemoveFirst(rooms[r].clients, c)
               /\ joinMark'[c] = joinMark[c] => chatRoom'[c] = nil
        /\ (joinMark'[c] # joinMark[c] /\ chatRoom[c] = r)
            => /\ joinMark'[c].at >= 1
               /\ joinMark'[c].at = Len(outLog'[c])
               /\ outLog'[c][joinMark'[c].at] = NoticeRoomLeave(name[c])
    /\ (nEvents' = nEvents /\ todo # <<>> /\ todo' # todo)
        => outLog' = [outLog EXCEPT ![Head(todo)[2]] = Append(@, Head(todo)[3])]

\* C16: ChatRoom.Leave broadcasts the departure notice with the client still
\* a member, then removes it, then clears its reference; the client and every
\* other member get the notice once; a client that switches rooms gets the
\* notice of the old room before the history of the new one.
C16_LeaveOrder == [][C16_LeaveStep]_vars

\* A /leave in a room of two has returned: the client that left and the one
\* that stays each have the departure notice once.
C16_Witness ==
    /\ todo = <<>>
    /\ handling.kind = "incoming"
    /\ handling.text = <<"/leave">>
    /\ chatRoom[handling.client] = nil
    /\ Count(outLog[handling.client], NoticeRoomLeave(name[handling.client])) = 1
    /\ \E r \in Live : \E m \in Members(r) :
        /\ m # handling.client
        /\ handling.client \notin Members(r)
        /\ Last(rooms[r].messages) = NoticeRoomLeave(name[handling.client])
        /\ Count(outLog[m], NoticeRoomLeave(name[handling.client])) = 1

\* Lobby.Join went past its capacity check for c: the relay goroutine exists.
Admitted(c) == relay[c] # "off"

\* Client.Read and Client.Write of c have returned.
PumpsEnded(c) == reader[c] = "exited" /\ writer[c] \in {"stopped", "done"}

\* C17: once Client.Quit has closed c's connection, for /quit or for a Join
\* at capacity, Client.Read and Client.Write of c end, and an admitted c gets
\* its Lobby.Leave: out of the roster, client.outgoing closed.
C17_QuitEndsPumps ==
    \A c \in Clients :
        (conn[c] = "closed")
            ~> (/\ PumpsEnded(c)
                /\ Admitted(c) => (outClosed[c] /\ c \notin Range(LobbyClients)))

\* C18, the states: no goroutine has panicked; Lobby.Leave has been called at
\* most once for a client; and a client whose client.outgoing is closed had
\* its Lobby.Leave as the last event handled for it, has no send pending in
\* the running handler and is in the list of no room of the directory.
C18_Closed ==
    /\ ~panicked
    /\ \A c \in Clients :
        /\ Count(handledLog[c], <<"leave">>) <= 1
        /\ outClosed[c]
            => /\ handledLog[c] # <<>>
               /\ Last(handledLog[c]) = <<"leave">>
               /\ \A i \in DOMAIN todo : todo[i][1] = "send" => todo[i][2] # c
               /\ \A r \in Live : c \notin Members(r)

\* C18, the steps: a closed client.outgoing stays closed and nothing more is
\* received from it.
C18_ClosedStep ==
    \A c \in Clients :
        outClosed[c] => outClosed'[c] /\ outLog'[c] = outLog[c]

\* C18: client.outgoing is closed at most once, and once it is closed no
\* operation sends on it: no send on a closed channel, no second close.
C18_ClosedOnce == []C18_Closed /\ [][C18_ClosedStep]_vars

\* A client left the lobby from a room it shared, and the room was deleted
\* afterwards: the deletion notice went to the member that stayed.
C18_Witness ==
    /\ todo = <<>>
    /\ handling.kind = "delete"
    /\ handling.expired
    /\ \E c, m \in Clients :
        /\ c # m
        /\ outClosed[c]
        /\ ~outClosed[m]
        /\ outLog[c] # <<>>
        /\ outLog[m] # <<>>
        /\ Last(outLog[c]) = NoticeRoomLeave(name[c])
        /\ Last(outLog[m]) = NoticeRoomDelete

\* C19: when the Lobby is between two events, a client is in the list of a
\* room of the directory exactly when its room reference is that room, the
\* members of a room of the directory are in the roster, and a room reference
\* that is not nil is a room of the directory.
C19_RoomsRosterAgree ==
    todo = <<>>
        => /\ \A r \in Live : \A c \in Clients : c \in Members(r) <=> chatRoom[c] = r
           /\ \A r \in Live : Members(r) \subseteq Range(LobbyClients)
           /\ \A c \in Clients : chatRoom[c] # nil => chatRoom[c] \in Live

\* The Lobby is in DeleteChatRoom(r), in the branch that deletes: the timer
\* goroutine has handed r over and r is not yet out of the directory.
Deleting(r) ==
    /\ todo # <<>>
    /\ handling.kind = "delete"
    /\ handling.room = r
    /\ handling.expired

\* The deletion checks of r: its timer goroutines, and the check the Lobby
\* is running.
Checks(r) == Cardinality(TimersOf(r)) + (IF Deleting(r) THEN 1 ELSE 0)

\* C20, the states: one deletion check for every room of the directory, none
\* for a room that is not in it.
C20_OneCheck ==
    \A r \in RoomIds :
        /\ r \in Live => Checks(r) = 1
        /\ r \notin Live => TimersOf(r) = {}

\* C20, the steps: a room leaves the directory in its own deletion check
\* only, and the removal by name takes no other room out of it.
C20_RemovalStep ==
    \A r \in RoomIds :
        (r \in Live /\ r \notin Live')
            => /\ handling'.kind = "delete"
               /\ handling'.room = r
               /\ chatRooms' = [chatRooms EXCEPT ![rooms[r].name] = nil]
               /\ \A q \in Live \ {r} : q \in Live'

\* C20: a room of the directory has exactly one deletion check, a deleted
\* room has none, so the removal by name in DeleteChatRoom never removes a
\* newer room of the same name.
C20_OneCheckPerRoom == []C20_OneCheck /\ [][C20_RemovalStep]_vars

\* A room was deleted and a newer room of the same name is in the directory,
\* with its own check and none left of the old room.
C20_Witness ==
    \E r, q \in RoomIds :
        /\ r < q
        /\ q \in Live
        /\ r \notin Live
        /\ rooms[r].name = rooms[q].name
        /\ Cardinality(TimersOf(q)) = 1
        /\ TimersOf(r) = {}
====
